---- MODULE Spec2Model ----
(***************************************************************************)
(* Contact directory of src/Main.py: Phone / Birthday field validation,    *)
(* Record, AddressBook, the upcoming-birthday query and the command        *)
(* handlers driven by main().                                              *)
(*                                                                         *)
(* Strings that the code inspects character by character (phones, dates)   *)
(* are sequences of one-character strings.  Names are only compared and    *)
(* used as keys, so they are plain strings.  Python objects compared with  *)
(* the default == (identity) carry an id.                                  *)
(***************************************************************************)
EXTENDS Integers, Sequences, FiniteSets, TLC

VARIABLES book, running, last

vars == <<book, running, last>>

----------------------------------------------------------------------------
(* Bounds *)

\* Phone entries held by the whole directory
MaxPhones == 2

----------------------------------------------------------------------------
(* Characters *)

DigitChars == <<"0", "1", "2", "3", "4", "5", "6", "7", "8", "9">>

IsDigitChar(c) == \E i \in 1..10 : DigitChars[i] = c

DigitVal(c) == (CHOOSE i \in 1..10 : DigitChars[i] = c) - 1

\* ''.join(ch for ch in value if ch.isdigit())
StripNonDigits(s) == SelectSeq(s, IsDigitChar)

\* str.isdigit(): non-empty and every character a digit
isdigit(s) == Len(s) > 0 /\ \A i \in 1..Len(s) : IsDigitChar(s[i])

RECURSIVE ToNumber(_)
ToNumber(s) ==
    IF Len(s) = 0 THEN 0
    ELSE 10 * ToNumber(SubSeq(s, 1, Len(s) - 1)) + DigitVal(s[Len(s)])

\* the pieces of s between the separators sep
RECURSIVE SplitOn(_, _)
SplitOn(s, sep) ==
    IF \A i \in 1..Len(s) : s[i] # sep THEN <<s>>
    ELSE LET k == CHOOSE i \in 1..Len(s) :
                      s[i] = sep /\ \A j \in 1..(i - 1) : s[j] # sep
         IN  <<SubSeq(s, 1, k - 1)>> \o SplitOn(SubSeq(s, k + 1, Len(s)), sep)

Pad2(n) == <<DigitChars[(n \div 10) + 1], DigitChars[(n % 10) + 1]>>

Pad4(n) == Pad2(n \div 100) \o Pad2(n % 100)

----------------------------------------------------------------------------
(* datetime.date *)

IsLeap(y) == (y % 4 = 0) /\ ((y % 100 # 0) \/ (y % 400 = 0))

DaysInMonth(y, m) ==
    IF m = 2 THEN (IF IsLeap(y) THEN 29 ELSE 28)
    ELSE IF m \in {4, 6, 9, 11} THEN 30 ELSE 31

MkDate(y, m, d) == [year |-> y, month |-> m, day |-> d]

ValidDate(y, m, d) ==
    /\ y >= 1 /\ y <= 9999
    /\ m \in 1..12
    /\ d >= 1 /\ d <= DaysInMonth(y, m)

RECURSIVE DaysBeforeMonth(_, _)
DaysBeforeMonth(y, m) ==
    IF m = 1 THEN 0 ELSE DaysBeforeMonth(y, m - 1) + DaysInMonth(y, m - 1)

\* date.toordinal(): 1 January of year 1 is day 1
toordinal(dt) ==
    LET y == dt.year - 1
    IN  y * 365 + (y \div 4) - (y \div 100) + (y \div 400)
          + DaysBeforeMonth(dt.year, dt.month) + dt.day

\* date.weekday(): Monday is 0, Saturday 5, Sunday 6
weekday(dt) == (toordinal(dt) + 6) % 7

\* date.__lt__
DateLT(a, b) ==
    \/ a.year < b.year
    \/ a.year = b.year /\ a.month < b.month
    \/ a.year = b.year /\ a.month = b.month /\ a.day < b.day

NextDay(dt) ==
    IF dt.day < DaysInMonth(dt.year, dt.month)
      THEN MkDate(dt.year, dt.month, dt.day + 1)
    ELSE IF dt.month < 12 THEN MkDate(dt.year, dt.month + 1, 1)
    ELSE MkDate(dt.year + 1, 1, 1)

\* date + timedelta(days=n), n >= 0
RECURSIVE AddDays(_, _)
AddDays(dt, n) == IF n = 0 THEN dt ELSE AddDays(NextDay(dt), n - 1)

\* date.replace(year=y): ValueError when the day does not exist in year y
replace_year(dt, y) ==
    IF ValidDate(y, dt.month, dt.day)
      THEN [ok |-> TRUE, value |-> MkDate(y, dt.month, dt.day)]
      ELSE [ok |-> FALSE, value |-> dt]

\* strftime("%d.%m.%Y")
strftime(dt) == Pad2(dt.day) \o <<".">> \o Pad2(dt.month) \o <<".">> \o Pad4(dt.year)

\* strptime(value, '%d.%m.%Y'): day and month of one or two digits (not "0",
\* not "00"), a four-digit year, and the date must exist
strptime(s) ==
    LET parts == SplitOn(s, ".")
        okShape ==
            /\ Len(parts) = 3
            /\ Len(parts[1]) \in {1, 2} /\ isdigit(parts[1])
            /\ Len(parts[2]) \in {1, 2} /\ isdigit(parts[2])
            /\ Len(parts[3]) = 4 /\ isdigit(parts[3])
        d == ToNumber(parts[1])
        m == ToNumber(parts[2])
        y == ToNumber(parts[3])
    IN  IF okShape /\ ValidDate(y, m, d)
          THEN [ok |-> TRUE, value |-> MkDate(y, m, d)]
          ELSE [ok |-> FALSE, value |-> MkDate(1, 1, 1)]

----------------------------------------------------------------------------
(* Field, Phone, Birthday *)

\* Phone._validate: the raw value is kept when exactly 10 digits remain after
\* dropping every non-digit character; ValueError otherwise (every value here
\* is a str, so the TypeError branch is not taken)
Phone_validate(value) ==
    IF Len(StripNonDigits(value)) # 10
      THEN [ok |-> FALSE, value |-> value]
      ELSE [ok |-> TRUE, value |-> value]

\* Phone(value): a new object (its identity is id) holding the validated value
Phone(value, id) ==
    LET v == Phone_validate(value)
    IN  [ok |-> v.ok, phone |-> [id |-> id, value |-> v.value]]

\* Field defines no __eq__, so == on Field objects is object identity
FieldEq(a, b) == a.id = b.id

\* Birthday(value): strptime, ValueError("Invalid date format. Use DD.MM.YYYY")
Birthday(value) == strptime(value)

\* An argument of type str | Phone: a raw string (obj = FALSE) or a Phone object
RawArg(s) == [obj |-> FALSE, id |-> 0, value |-> s]

ObjArg(p) == [obj |-> TRUE, id |-> p.id, value |-> p.value]

NoArg == RawArg(<<>>)

\* The identity of an object built for one comparison and dropped on return:
\* no stored object has it
TransientId == 0

\* phone if isinstance(phone, Phone) else Phone(phone)
AsPhone(arg, id) ==
    IF arg.obj THEN [ok |-> TRUE, phone |-> [id |-> arg.id, value |-> arg.value]]
    ELSE Phone(arg.value, id)

----------------------------------------------------------------------------
(* Record.  Every method yields [exc, rec, ret, found]: the exception raised  *)
(* ("None" when it returns), the record afterwards, the boolean returned and  *)
(* the Optional[Phone] returned, as a sequence of length 0 or 1.              *)

Record(name) == [name |-> name, phones |-> <<>>, birthday |-> <<>>]

Returned(rec, ret, found) ==
    [exc |-> "None", rec |-> rec, ret |-> ret, found |-> found]

Raised(exc, rec) == [exc |-> exc, rec |-> rec, ret |-> FALSE, found |-> <<>>]

\* index of the first entry of phones equal (==) to p, or 0
FirstIndex(phones, p) ==
    IF \E i \in 1..Len(phones) : FieldEq(p, phones[i])
      THEN CHOOSE i \in 1..Len(phones) :
             /\ FieldEq(p, phones[i])
             /\ \A j \in 1..(i - 1) : ~FieldEq(p, phones[j])
      ELSE 0

RemoveAt(s, i) == SubSeq(s, 1, i - 1) \o SubSeq(s, i + 1, Len(s))

add_phone(rec, phone, id) ==
    LET w == AsPhone(phone, id)
    IN  IF ~w.ok THEN Raised("ValueError", rec)
        ELSE Returned([rec EXCEPT !.phones = Append(@, w.phone)], FALSE, <<w.phone>>)

remove_phone(rec, phone) ==
    LET w == AsPhone(phone, TransientId)
        i == FirstIndex(rec.phones, w.phone)
    IN  IF ~w.ok THEN Raised("ValueError", rec)
        ELSE IF i # 0
          THEN Returned([rec EXCEPT !.phones = RemoveAt(@, i)], TRUE, <<>>)
        ELSE Returned(rec, FALSE, <<>>)

\* edit_phone gone wrong: a phone that is not found is appended
edit_phone_upsert(rec, old_phone, new_phone, id) ==
    LET o == AsPhone(old_phone, TransientId)
        n == AsPhone(new_phone, id)
        i == FirstIndex(rec.phones, o.phone)
    IN  IF ~o.ok THEN Raised("ValueError", rec)
        ELSE IF ~n.ok THEN Raised("ValueError", rec)
        ELSE IF i # 0
          THEN Returned([rec EXCEPT !.phones[i] = n.phone], TRUE, <<>>)
        ELSE Returned([rec EXCEPT !.phones = Append(@, n.phone)], FALSE, <<>>)

\* id is the identity of new_instance when it is built from a raw string
edit_phone(rec, old_phone, new_phone, id) ==
    LET o == AsPhone(old_phone, TransientId)
        n == AsPhone(new_phone, id)
        i == FirstIndex(rec.phones, o.phone)
    IN  IF ~o.ok THEN Raised("ValueError", rec)
        ELSE IF ~n.ok THEN Raised("ValueError", rec)
        ELSE IF i # 0
          THEN Returned([rec EXCEPT !.phones[i] = n.phone], TRUE, <<>>)
        ELSE Returned(rec, FALSE, <<>>)

find_phone(rec, phone) ==
    LET w == AsPhone(phone, TransientId)
        i == FirstIndex(rec.phones, w.phone)
    IN  IF ~w.ok THEN Raised("ValueError", rec)
        ELSE IF i # 0 THEN Returned(rec, FALSE, <<rec.phones[i]>>)
        ELSE Returned(rec, FALSE, <<>>)

add_birthday(rec, birthday) ==
    LET b == Birthday(birthday)
    IN  IF ~b.ok THEN Raised("ValueError", rec)
        ELSE Returned([rec EXCEPT !.birthday = <<b.value>>], FALSE, <<>>)

----------------------------------------------------------------------------
(* AddressBook: a dict, kept as the sequence of its items in insertion order *)

Entry(key, rec) == [key |-> key, rec |-> rec]

Keys(data) == {data[i].key : i \in 1..Len(data)}

IndexOf(data, name) ==
    IF name \in Keys(data)
      THEN CHOOSE i \in 1..Len(data) : data[i].key = name
      ELSE 0

\* add_record gone wrong: the record is appended whether or not the key is held
add_record_append(data, record) == Append(data, Entry(record.name, record))

\* self.data[key] = record: a present key keeps its position, a new key is
\* appended
add_record(data, record) ==
    LET key == record.name
        i == IndexOf(data, key)
    IN  IF i # 0 THEN [data EXCEPT ![i] = Entry(key, record)]
        ELSE Append(data, Entry(key, record))

\* self.data.get(name): a sequence of length 0 (None) or 1
find(data, name) ==
    LET i == IndexOf(data, name)
    IN  IF i # 0 THEN <<data[i].rec>> ELSE <<>>

delete(data, name) ==
    LET i == IndexOf(data, name)
    IN  IF i # 0 THEN [data |-> RemoveAt(data, i), ret |-> TRUE]
        ELSE [data |-> data, ret |-> FALSE]

StoredPhones(data) ==
    UNION {{data[i].rec.phones[j] : j \in 1..Len(data[i].rec.phones)} :
             i \in 1..Len(data)}

\* The identity of a newly built object that may be stored: one that no
\* object held by the directory has (the least such)
FreshId(data) ==
    CHOOSE n \in 1..(Cardinality(StoredPhones(data)) + 1) :
        /\ \A p \in StoredPhones(data) : p.id # n
        /\ \A k \in 1..(n - 1) : \E p \in StoredPhones(data) : p.id = k

\* The record objects are shared with the dict: a method that changes a
\* record found in the book changes the book's entry
Store(data, name, rec) == [data EXCEPT ![IndexOf(data, name)].rec = rec]

\* upcoming_entry gone wrong: a Saturday birthday is moved by one day only
upcoming_entry_short_shift(record, today) ==
    LET skip == [ok |-> TRUE, include |-> FALSE, name |-> record.name,
                 congratulation_date |-> <<>>]
        fail == [skip EXCEPT !.ok = FALSE]
    IN  IF Len(record.birthday) = 0 THEN skip
        ELSE
          LET bday_date == record.birthday[1]
              r1 == replace_year(bday_date, today.year)
              r2 == replace_year(r1.value, today.year + 1)
              passed == DateLT(r1.value, today)
              bday_this_year == IF passed THEN r2.value ELSE r1.value
              delta_days == toordinal(bday_this_year) - toordinal(today)
              wd == weekday(bday_this_year)
              congratulation_date ==
                  IF wd = 5 THEN AddDays(bday_this_year, 1)
                  ELSE IF wd = 6 THEN AddDays(bday_this_year, 1)
                  ELSE bday_this_year
          IN  IF ~r1.ok THEN fail
              ELSE IF passed /\ ~r2.ok THEN fail
              ELSE IF 0 <= delta_days /\ delta_days <= 7
                THEN [skip EXCEPT !.include = TRUE,
                        !.congratulation_date = strftime(congratulation_date)]
              ELSE skip

\* One pass of the loop body of get_upcoming_birthdays for one record:
\* ok = FALSE when date.replace raises, include = TRUE when an entry is appended
upcoming_entry(record, today) ==
    LET skip == [ok |-> TRUE, include |-> FALSE, name |-> record.name,
                 congratulation_date |-> <<>>]
        fail == [skip EXCEPT !.ok = FALSE]
    IN  IF Len(record.birthday) = 0 THEN skip
        ELSE
          LET bday_date == record.birthday[1]
              r1 == replace_year(bday_date, today.year)
              r2 == replace_year(r1.value, today.year + 1)
              passed == DateLT(r1.value, today)
              bday_this_year == IF passed THEN r2.value ELSE r1.value
              delta_days == toordinal(bday_this_year) - toordinal(today)
              wd == weekday(bday_this_year)
              congratulation_date ==
                  IF wd = 5 THEN AddDays(bday_this_year, 2)
                  ELSE IF wd = 6 THEN AddDays(bday_this_year, 1)
                  ELSE bday_this_year
          IN  IF ~r1.ok THEN fail
              ELSE IF passed /\ ~r2.ok THEN fail
              ELSE IF 0 <= delta_days /\ delta_days <= 7
                THEN [skip EXCEPT !.include = TRUE,
                        !.congratulation_date = strftime(congratulation_date)]
              ELSE skip

RECURSIVE UpcomingFrom(_, _, _)
UpcomingFrom(data, today, i) ==
    IF i > Len(data) THEN <<>>
    ELSE LET e == upcoming_entry(data[i].rec, today)
             rest == UpcomingFrom(data, today, i + 1)
         IN  IF e.include
               THEN <<[name |-> e.name,
                       congratulation_date |-> e.congratulation_date]>> \o rest
               ELSE rest

\* [ok, value]: ok = FALSE when the ValueError of date.replace leaves the
\* method, value the list returned otherwise
get_upcoming_birthdays(data, today) ==
    IF \E i \in 1..Len(data) : ~upcoming_entry(data[i].rec, today).ok
      THEN [ok |-> FALSE, value |-> <<>>]
      ELSE [ok |-> TRUE, value |-> UpcomingFrom(data, today, 1)]

----------------------------------------------------------------------------
(* Command handlers.  A handler yields [exc, site, value, out, book]: the    *)
(* exception it raises ("None" when it returns) and where, the fixed string  *)
(* it returns ("None" for None), the text it builds or prints, and the       *)
(* directory afterwards.                                                     *)

Done(value, out, data) ==
    [exc |-> "None", site |-> "None", value |-> value, out |-> out, book |-> data]

Fail(exc, site, data) ==
    [exc |-> exc, site |-> site, value |-> "None", out |-> <<>>, book |-> data]

\* the decorator: ValueError, KeyError and IndexError become fixed strings
input_error(r) ==
    IF r.exc = "ValueError"
      THEN [r EXCEPT !.value = "Give me name and phone please."]
    ELSE IF r.exc = "KeyError" THEN [r EXCEPT !.value = "Contact not found."]
    ELSE IF r.exc = "IndexError" THEN [r EXCEPT !.value = "Enter user name."]
    ELSE r

add_contact(args, data) ==
    IF Len(args) < 2 THEN Fail("ValueError", "unpack", data)
    ELSE
      LET name == args[1]
          phone == args[2]
          found == find(data, name)
          isNew == Len(found) = 0
          record == IF isNew THEN Record(name) ELSE found[1]
          data1 == IF isNew THEN add_record(data, record) ELSE data
          msg == IF isNew THEN "Contact added." ELSE "Contact updated."
          r == add_phone(record, RawArg(phone), FreshId(data))
      IN  IF Len(phone) = 0 THEN Done(msg, <<>>, data1)
          ELSE IF r.exc # "None" THEN Fail(r.exc, "Phone", data1)
          ELSE Done(msg, <<>>, Store(data1, name, r.rec))

\* re.compile(r'^(?:\+?380|0)\d{9}$').match(phone)
UA_SIMPLE(phone) ==
    \E prefix \in {<<"+", "3", "8", "0">>, <<"3", "8", "0">>, <<"0">>} :
        /\ Len(phone) = Len(prefix) + 9
        /\ SubSeq(phone, 1, Len(prefix)) = prefix
        /\ \A i \in (Len(prefix) + 1)..Len(phone) : IsDigitChar(phone[i])

validate_phone(phone) ==
    IF ~isdigit(phone) THEN FALSE
    ELSE IF ~UA_SIMPLE(phone) THEN FALSE
    ELSE TRUE

\* '; '.join(p.value for p in phones)
RECURSIVE JoinPhones(_)
JoinPhones(phones) ==
    IF Len(phones) = 0 THEN <<>>
    ELSE IF Len(phones) = 1 THEN phones[1].value
    ELSE phones[1].value \o <<";", " ">> \o JoinPhones(Tail(phones))

get_contact_phone(args, data) ==
    IF Len(args) = 0 THEN Fail("IndexError", "index", data)
    ELSE
      LET found == find(data, args[1])
      IN  IF Len(found) = 0 THEN Done("Contact not found.", <<>>, data)
          ELSE IF Len(found[1].phones) = 0 THEN Done("No phones.", <<>>, data)
          ELSE Done("joined", JoinPhones(found[1].phones), data)

\* Record.__str__
render(rec) ==
    [name |-> rec.name,
     phones |-> JoinPhones(rec.phones),
     birthday |-> IF Len(rec.birthday) = 0 THEN <<"-">> ELSE strftime(rec.birthday[1])]

print_all_contacts(data) ==
    Done("None", [i \in 1..Len(data) |-> render(data[i].rec)], data)

update_contact(args, data) ==
    IF Len(args) # 3 THEN Fail("ValueError", "unpack", data)
    ELSE
      LET name == args[1]
          old_phone == args[2]
          new_phone == args[3]
          found == find(data, name)
          r == edit_phone(found[1], RawArg(old_phone), RawArg(new_phone),
                          FreshId(data))
      IN  IF ~validate_phone(new_phone)
            THEN Done("Invalid phone format.", <<>>, data)
          ELSE IF Len(found) = 0
            THEN Fail("ValueError", "update_contact", data)
          ELSE IF r.exc # "None" THEN Fail(r.exc, "Phone", data)
          ELSE Done("None", <<>>, Store(data, name, r.rec))

add_birthday_cmd(args, data) ==
    IF Len(args) # 2 THEN Fail("ValueError", "unpack", data)
    ELSE
      LET found == find(data, args[1])
          r == add_birthday(found[1], args[2])
      IN  IF Len(found) = 0 THEN Fail("ValueError", "add_birthday", data)
          ELSE IF r.exc # "None" THEN Fail(r.exc, "Birthday", data)
          ELSE Done("None", <<>>, Store(data, args[1], r.rec))

show_birthday(args, data) ==
    IF Len(args) = 0 THEN Fail("IndexError", "index", data)
    ELSE
      LET found == find(data, args[1])
      IN  IF Len(found) = 0 \/ Len(found[1].birthday) = 0
            THEN Fail("ValueError", "show_birthday", data)
          ELSE Done("None", strftime(found[1].birthday[1]), data)

----------------------------------------------------------------------------
(* Inputs *)

Names == {"Anna", "Bob"}

PhonePlain == <<"0", "9", "9", "1", "2", "3", "4", "5", "6", "7">>

PhoneDashed == <<"0", "9", "9", "-", "1", "2", "3", "-", "4", "5", "6", "7">>

PhoneOther == <<"0", "6", "7", "1", "1", "1", "2", "2", "3", "3">>

PhoneShort == <<"1", "2", "3", "4", "5">>

PhoneIntl == <<"3", "8", "0", "9", "9", "1", "2", "3", "4", "5", "6", "7">>

PhonePlusIntl == <<"+">> \o PhoneIntl

\* "15.06.1990", "29.02.2024", "29.02.2023" (no such day), "1990-06-15"
RawBirthdays ==
    {strftime(MkDate(1990, 6, 15)),
     strftime(MkDate(2024, 2, 29)),
     <<"2", "9", ".", "0", "2", ".", "2", "0", "2", "3">>,
     <<"1", "9", "9", "0", "-", "0", "6", "-", "1", "5">>}

\* values of datetime.today(): Monday 10.06.2024, 26.02.2024, 25.02.2025
Todays == {MkDate(2024, 6, 10), MkDate(2024, 2, 26), MkDate(2025, 2, 25)}

AddArgs ==
    {<<>>, <<"Anna">>}
      \cup {<<n, p>> : n \in Names, p \in {PhonePlain, PhoneDashed, PhoneShort}}

ChangeArgs ==
    {<<"Anna", PhonePlain>>, <<"Anna", PhoneShort, PhoneOther>>}
      \cup {<<n, PhonePlain, p>> :
              n \in Names,
              p \in {PhoneOther, PhoneDashed, PhoneShort, PhoneIntl, PhonePlusIntl}}

NameArgs == {<<>>} \cup {<<n>> : n \in Names}

BirthdayArgs == {<<"Anna">>} \cup {<<n, b>> : n \in Names, b \in RawBirthdays}

\* arguments of type str | Phone of the direct calls: raw strings, and for the
\* phone looked for also the Phone objects the directory holds
RawPhoneArgs == {RawArg(s) : s \in {PhonePlain, PhoneDashed, PhoneShort}}

PhoneArgs(data) == RawPhoneArgs \cup {ObjArg(p) : p \in StoredPhones(data)}


\* birthdays of the direct calls: "15.06.1990" and "1990-06-15"
RecordBirthdays ==
    {strftime(MkDate(1990, 6, 15)),
     <<"1", "9", "9", "0", "-", "0", "6", "-", "1", "5">>}

----------------------------------------------------------------------------
(* State *)

\* last: the operation performed last, its inputs and its outcome, and the
\* directory as it was before it (pre)
NoLast ==
    [op |-> "start", args |-> <<>>, name |-> "", old |-> NoArg, new |-> NoArg,
     today |-> MkDate(1, 1, 1), exc |-> "None", site |-> "None",
     msg |-> "None", out |-> <<>>, ret |-> FALSE, found |-> <<>>,
     upcoming |-> <<>>, pre |-> <<>>]

Init ==
    /\ book = <<>>
    /\ running = TRUE
    /\ last = NoLast

PhoneCount(data) ==
    IF Len(data) = 0 THEN 0
    ELSE IF Len(data) = 1 THEN Len(data[1].rec.phones)
    ELSE Len(data[1].rec.phones) + Len(data[2].rec.phones)

Bounded(data) == PhoneCount(data) <= MaxPhones

\* the directory is idle: no call is in progress, main() waits in input()
Idle == running /\ last = NoLast

\* while True: back to input() after a command; a direct call has returned
Prompt ==
    /\ running
    /\ last # NoLast
    /\ last' = NoLast
    /\ UNCHANGED <<book, running>>

\* main(): one command read, dispatched to its handler, its result printed
Handle(op, args, r) ==
    /\ Idle
    /\ Bounded(r.book)
    /\ book' = r.book
    /\ last' = [NoLast EXCEPT !.op = op, !.args = args, !.exc = r.exc,
                  !.site = r.site, !.msg = r.value, !.out = r.out, !.pre = book]
    /\ UNCHANGED running

CmdAdd == \E args \in AddArgs :
    Handle("add", args, input_error(add_contact(args, book)))

CmdChange == \E args \in ChangeArgs :
    Handle("change", args, input_error(update_contact(args, book)))

CmdPhone == \E args \in NameArgs :
    Handle("phone", args, input_error(get_contact_phone(args, book)))

CmdAll == Handle("all", <<>>, input_error(print_all_contacts(book)))

CmdAddBirthday == \E args \in BirthdayArgs :
    Handle("add-birthday", args, input_error(add_birthday_cmd(args, book)))

CmdShowBirthday == \E args \in NameArgs :
    Handle("show-birthday", args, input_error(show_birthday(args, book)))

\* case "birthdays": the call is not wrapped by input_error, so an exception
\* leaving get_upcoming_birthdays leaves main() and ends the process
Birthdays(today) ==
    LET r == get_upcoming_birthdays(book, today)
    IN  /\ Idle
        /\ running' = r.ok
        /\ last' = [NoLast EXCEPT !.op = "birthdays", !.today = today,
                      !.exc = IF r.ok THEN "None" ELSE "ValueError",
                      !.site = IF r.ok THEN "None" ELSE "date.replace",
                      !.upcoming = r.value, !.pre = book]
        /\ UNCHANGED book

CmdBirthdays == \E today \in Todays : Birthdays(today)

\* case "hello" and case _
CmdOther == \E op \in {"hello", "invalid"} :
    /\ Idle
    /\ last' = [NoLast EXCEPT !.op = op, !.pre = book,
                  !.msg = IF op = "hello" THEN "How can I help you?"
                          ELSE "Invalid command."]
    /\ UNCHANGED <<book, running>>

\* case "close" | "exit"
CmdExit ==
    /\ Idle
    /\ running' = FALSE
    /\ last' = [NoLast EXCEPT !.op = "exit", !.msg = "Good bye!", !.pre = book]
    /\ UNCHANGED book

\* parse_input on a line without a token: cmd, *args = [] raises ValueError
\* in main(), outside every handler
EmptyLine ==
    /\ Idle
    /\ running' = FALSE
    /\ last' = [NoLast EXCEPT !.op = "empty", !.exc = "ValueError",
                  !.site = "parse_input", !.pre = book]
    /\ UNCHANGED book

Next ==
    \/ CmdAdd
    \/ CmdChange
    \/ CmdPhone
    \/ CmdAll
    \/ CmdAddBirthday
    \/ CmdShowBirthday
    \/ CmdBirthdays
    \/ CmdOther
    \/ CmdExit
    \/ EmptyLine
    \/ Prompt

Spec == Init /\ [][Next]_vars

----------------------------------------------------------------------------
(* Direct calls of the Record and AddressBook methods on the directory *)

Call(op, name, old, new, r, data) ==
    /\ Idle
    /\ Bounded(data)
    /\ book' = data
    /\ last' = [NoLast EXCEPT !.op = op, !.name = name, !.old = old, !.new = new,
                  !.exc = r.exc, !.ret = r.ret, !.found = r.found, !.pre = book,
                  !.site = IF r.exc = "None" THEN "None" ELSE "Phone"]
    /\ UNCHANGED running

AddPhone == \E n \in Keys(book), a \in RawPhoneArgs :
    LET r == add_phone(find(book, n)[1], a, FreshId(book))
    IN  Call("add_phone", n, a, NoArg, r, Store(book, n, r.rec))

RemovePhone == \E n \in Keys(book), a \in PhoneArgs(book) :
    LET r == remove_phone(find(book, n)[1], a)
    IN  Call("remove_phone", n, a, NoArg, r, Store(book, n, r.rec))

EditPhone ==
    \E n \in Keys(book), a \in PhoneArgs(book), b \in RawPhoneArgs :
        LET r == edit_phone(find(book, n)[1], a, b, FreshId(book))
        IN  Call("edit_phone", n, a, b, r, Store(book, n, r.rec))

FindPhone == \E n \in Keys(book), a \in PhoneArgs(book) :
    LET r == find_phone(find(book, n)[1], a)
    IN  Call("find_phone", n, a, NoArg, r, book)

SetBirthday == \E n \in Keys(book), b \in RecordBirthdays :
    LET r == add_birthday(find(book, n)[1], b)
    IN  Call("add_birthday", n, NoArg, RawArg(b), r, Store(book, n, r.rec))

\* book.add_record(Record(name))
AddRecord == \E n \in Names :
    Call("add_record", n, NoArg, NoArg, Returned(Record(n), FALSE, <<>>),
         add_record(book, Record(n)))

Delete == \E n \in Names :
    LET r == delete(book, n)
    IN  Call("delete", n, NoArg, NoArg, Returned(Record(n), r.ret, <<>>), r.data)

Find == \E n \in Names :
    LET r == find(book, n)
    IN  Call("find", n, NoArg, NoArg,
             Returned(Record(n), Len(r) # 0, <<>>), book)

NextRecord ==
    \/ AddRecord
    \/ Delete
    \/ Find
    \/ AddPhone
    \/ RemovePhone
    \/ EditPhone
    \/ FindPhone
    \/ SetBirthday
    \/ Prompt

SpecRecord == Init /\ [][NextRecord]_vars

\* The operations that reach the directory's keys: the AddressBook methods
\* and the commands that look a record up or add one
NextDirectory ==
    \/ AddRecord
    \/ Delete
    \/ Find
    \/ CmdAdd
    \/ CmdChange
    \/ CmdAddBirthday
    \/ CmdPhone
    \/ Prompt

SpecDirectory == Init /\ [][NextDirectory]_vars

----------------------------------------------------------------------------
(* get_upcoming_birthdays over directories and values of today drawn from   *)
(* whole years                                                               *)

BirthYear == {2024}

TodayYears == {2023, 2024}

BirthMonths == 1..12

DaysOf(years, months) ==
    {dt \in [year : years, month : months, day : 1..31] :
        ValidDate(dt.year, dt.month, dt.day)}

\* birthdays of a one-record directory
FirstBirthdays == DaysOf(BirthYear, BirthMonths)

\* values of datetime.today()
RefDates == DaysOf(TodayYears, 1..12)

\* Record(name) with add_birthday(strftime(day))
Born(name, day) == add_birthday(Record(name), strftime(day)).rec

\* birthdays given to the second record of a two-record directory
SecondBirthdays ==
    {MkDate(2024, 2, 29), MkDate(2024, 6, 15), MkDate(2024, 1, 2),
     MkDate(2024, 12, 31), MkDate(2024, 3, 1)}

DateBooks ==
    {add_record(<<>>, Born("Anna", d)) : d \in FirstBirthdays}
      \cup {add_record(add_record(<<>>, Born("Bob", d)), Record("Anna")) :
              d \in SecondBirthdays}
      \cup {add_record(add_record(<<>>, Born("Bob", d)), Born("Anna", e)) :
              d \in SecondBirthdays, e \in SecondBirthdays}

InitDates ==
    /\ book \in DateBooks
    /\ running = TRUE
    /\ last = NoLast

QueryBirthdays == Idle /\ \E today \in RefDates : Birthdays(today)

NextDates == QueryBirthdays

SpecDates == InitDates /\ [][NextDates]_vars

----------------------------------------------------------------------------
(* Properties *)

RecordIn(data, name) == find(data, name)[1]

Values(phones) == {phones[i].value : i \in 1..Len(phones)}

IsRawValid(arg) == ~arg.obj /\ Phone_validate(arg.value).ok

\* C1: after addPhone(s), findPhone(s) with the same valid raw string returns
\* the stored phone whose value is s, and findPhone(t) for a valid raw string
\* that no stored value equals returns nothing
C1_FindByStoredString ==
    (last.op = "find_phone" /\ IsRawValid(last.old)) =>
        LET phones == RecordIn(last.pre, last.name).phones
        IN  IF last.old.value \in Values(phones)
              THEN /\ Len(last.found) = 1
                   /\ last.found[1].value = last.old.value
              ELSE last.found = <<>>

\* C2: editPhone(old, new) with valid raw strings, old equal to the stored
\* string of some entry, returns true and replaces exactly the first such
\* entry in place
C2_EditReplacesFirst ==
    (/\ last.op = "edit_phone"
     /\ IsRawValid(last.old)
     /\ IsRawValid(last.new)
     /\ last.old.value \in Values(RecordIn(last.pre, last.name).phones)) =>
        LET before == RecordIn(last.pre, last.name).phones
            after == RecordIn(book, last.name).phones
            k == CHOOSE i \in 1..Len(before) :
                     /\ before[i].value = last.old.value
                     /\ \A j \in 1..(i - 1) : before[j].value # last.old.value
        IN  /\ last.ret
            /\ Len(after) = Len(before)
            /\ after[k].value = last.new.value
            /\ \A i \in 1..Len(before) : i # k => after[i] = before[i]

EditNotFound ==
    /\ last.op = "edit_phone"
    /\ last.exc = "None"
    /\ last.old.value \notin Values(RecordIn(last.pre, last.name).phones)

\* C3: editPhone(old, new) with valid phones, when no entry of the phone
\* sequence equals old, returns false and leaves the phone sequence, the name
\* and the birthday (the whole directory) as they were
C3_EditNotFoundIsNoOp == EditNotFound => (~last.ret /\ book = last.pre)

C3_Witness ==
    /\ EditNotFound
    /\ ~last.ret
    /\ Len(RecordIn(last.pre, last.name).phones) > 0
    /\ Len(RecordIn(last.pre, last.name).birthday) = 1

\* C4: an operation that fails with a validation error on a malformed phone or
\* birthday leaves the directory exactly as it was before the call
C4_NoPartialMutation ==
    (last.exc = "ValueError" /\ last.site \in {"Phone", "Birthday"}) =>
        book = last.pre

\* C5: no command (add, change, phone, all, add-birthday, show-birthday,
\* birthdays) ends the process: after it the next command is still accepted
C5_NoCommandEndsProcess ==
    last.op \in {"add", "change", "phone", "all", "add-birthday",
                 "show-birthday", "birthdays"} => running

SameDay(a, b) == a.month = b.month /\ a.day = b.day

\* the birthday's month and day fall on one of the 8 days from today on
InWindow(bday, today) == \E k \in 0..7 : SameDay(AddDays(today, k), bday)

UpcomingDate(bday, today) ==
    AddDays(today, CHOOSE k \in 0..7 : SameDay(AddDays(today, k), bday))

RECURSIVE ExpectedNames(_, _, _)
ExpectedNames(data, today, i) ==
    IF i > Len(data) THEN <<>>
    ELSE IF /\ Len(data[i].rec.birthday) = 1
            /\ InWindow(data[i].rec.birthday[1], today)
      THEN <<data[i].rec.name>> \o ExpectedNames(data, today, i + 1)
    ELSE ExpectedNames(data, today, i + 1)

EntryNames(upcoming) == [i \in 1..Len(upcoming) |-> upcoming[i].name]

\* C6: upcomingBirthdays returns exactly one entry for each record whose
\* birthday's next occurrence is 0..7 days after the reference date, none for
\* any other record, in the directory's insertion order
C6_ExactlyTheWindow ==
    last.op = "birthdays" =>
        EntryNames(last.upcoming) = ExpectedNames(last.pre, last.today, 1)

\* days after Monday 10.06.2024, modulo 7: 5 is a Saturday, 6 a Sunday
DayAfterMonday(dt) == (toordinal(dt) - toordinal(MkDate(2024, 6, 10))) % 7

ExpectedCongratulation(bday, today) ==
    LET u == UpcomingDate(bday, today)
    IN  IF DayAfterMonday(u) = 5 THEN AddDays(u, 2)
        ELSE IF DayAfterMonday(u) = 6 THEN AddDays(u, 1)
        ELSE u

ScenarioA(bday, today) ==
    SameDay(bday, MkDate(1990, 6, 15)) /\ today = MkDate(2024, 6, 10)

\* C7: every entry's congratulation date is the upcoming birthday date plus 2
\* days on a Saturday, plus 1 day on a Sunday, the date itself otherwise; it is
\* never a Saturday or Sunday and at most 9 days after the reference date
\* (15.06 with reference Monday 10.06.2024 gives 17.06.2024)
C7_WeekendShift ==
    last.op = "birthdays" =>
        \A i \in 1..Len(last.upcoming) :
            LET e == last.upcoming[i]
                bday == RecordIn(last.pre, e.name).birthday[1]
                c == strptime(e.congratulation_date)
            IN  /\ e.congratulation_date =
                     strftime(ExpectedCongratulation(bday, last.today))
                /\ c.ok
                /\ DayAfterMonday(c.value) \notin {5, 6}
                /\ toordinal(c.value) - toordinal(last.today) \in 0..9
                /\ ScenarioA(bday, last.today) =>
                     e.congratulation_date = strftime(MkDate(2024, 6, 17))

C7_Witness ==
    /\ last.op = "birthdays"
    /\ \E i \in 1..Len(last.upcoming) :
           /\ ScenarioA(RecordIn(last.pre, last.upcoming[i].name).birthday[1],
                        last.today)
           /\ last.upcoming[i].congratulation_date = strftime(MkDate(2024, 6, 17))

\* C8: every key of the directory maps to a record whose name is the key, keys
\* are unique, and addRecord with a name already present replaces the prior
\* record instead of adding a second entry
C8_KeysAreNames ==
    /\ \A i \in 1..Len(book) : book[i].rec.name = book[i].key
    /\ \A i, j \in 1..Len(book) : book[i].key = book[j].key => i = j
    /\ (last.op = "add_record" /\ last.name \in Keys(last.pre)) =>
           /\ Len(book) = Len(last.pre)
           /\ RecordIn(book, last.name) = Record(last.name)

C8_Witness ==
    /\ last.op = "add_record"
    /\ last.name \in Keys(last.pre)
    /\ Len(last.pre) = 2
    /\ Len(RecordIn(last.pre, last.name).phones) > 0
    /\ RecordIn(book, last.name) = Record(last.name)

\* C9: change with a name that is not a key and a newPhone that passes the
\* format rule answers "Contact not found." and leaves the directory unchanged
C9_ChangeUnknownName ==
    (/\ last.op = "change"
     /\ Len(last.args) = 3
     /\ last.args[1] \notin Keys(last.pre)
     /\ validate_phone(last.args[3])) =>
        (last.msg = "Contact not found." /\ book = last.pre)

\* the format rule as claimed: a leading '+' of the international form
\* dropped, newPhone is 0 and 9 digits, or 380 and 9 digits
SecondaryRule(phone) ==
    LET plus == Len(phone) > 0 /\ phone[1] = "+"
        n == IF plus THEN Tail(phone) ELSE phone
        intl == Len(n) = 12 /\ SubSeq(n, 1, 3) = <<"3", "8", "0">>
        national == Len(n) = 10 /\ n[1] = "0"
    IN  isdigit(n) /\ (intl \/ (national /\ ~plus))

\* C10: change fails on the format rule exactly when newPhone is neither a
\* 10-digit national number with leading 0 nor 380 and 9 digits with or
\* without a leading '+'
C10_FormatRule ==
    (last.op = "change" /\ Len(last.args) = 3) =>
        ((last.msg = "Invalid phone format.") <=> ~SecondaryRule(last.args[3]))

====
